---- MODULE Spec2Model ----
(***************************************************************************)
(* Model of `nh clean` (src/src/clean.rs): CleanMode::run, profiles_in_dir,*)
(* cleanable_generations and remove_path_nofail, over a small filesystem.  *)
(*                                                                         *)
(* Time is an integer number of ticks.  A path of a generation link is a   *)
(* record [dir, name, num, tail] standing for "<dir>/<name>-<num>-link<tail>";*)
(* a profile path is [dir, name]; a gcroot target is a tuple of characters.*)
(***************************************************************************)
EXTENDS Integers, Sequences, FiniteSets, TLC

\* ------------------------------------------------------------------ bounds
\* generation numbers of a profile in the run specification are 1..MaxGen
MaxGen == 2
\* generation numbers of the profile in the planner specification are 1..MaxGenPlan
MaxGenPlan == 3
\* --keep ranges over 0..MaxKeep
MaxKeep == 2
\* --keep-since ranges over 0..MaxKeepSince ticks
MaxKeepSince == 1
\* at most MaxFaults profile directories are unreadable during discovery, and
\* at most MaxFaults removals of a run are denied by the system
MaxFaults == 1
MaxUnreadable == MaxFaults
MaxDenied == MaxFaults
\* --keep ranges over 0..MaxKeepRun in the run specification
MaxKeepRun == MaxKeep - 1
\* modification times range over 0..MaxTime; the run starts at MaxTime - 1,
\* so the largest modification time is one tick in the future
MaxTime == 3

Times == 0 .. MaxTime
\* no modification time was read
NoTime == 0 - 1
StartTime == MaxTime - 1

\* ------------------------------------------------------------ path universe
\* /nix/var/nix/profiles, /nix/var/nix/profiles/per-user/<user>,
\* <home>/.local/state/nix/profiles
Dirs == {"global", "peruser", "xdg"}

\* the one profile each directory may hold
ProfileNameOf(d) ==
    CASE d = "global"  -> "system"
      [] d = "peruser" -> "profile"
      [] d = "xdg"     -> "home-manager"

ProfilePath(d) == [dir |-> d, name |-> ProfileNameOf(d)]
AllProfilePaths == {ProfilePath(d) : d \in Dirs}

\* "<dir>/<name>-<num>-link<tail>"
GenPath(d, n, k, t) == [dir |-> d, name |-> n, num |-> k, tail |-> t]

\* /nix/var/nix/gcroots/auto
GcrootsDir == "gcroots_auto"
\* /nix/var/nix/profiles/per-user
PerUserRoot == "peruser_root"

\* gcroot targets, the destinations of the links of the registry: paths given
\* by their text
Target(chars) == [text |-> chars]
TDirenv == Target(<<"/", "p", "/", ".", "d", "i", "r", "e", "n", "v", "/", "f">>)
TResult == Target(<<"/", "p", "/", "r", "e", "s", "u", "l", "t">>)
TOut    == Target(<<"/", "p", "/", "o", "u", "t">>)
TEnvrc  == Target(<<"/", "p", "/", ".", "d", "i", "r", "e", "n", "v">>)
\* the target of a dangling registry link: it is not on disk
TGone   == Target(<<"/", "q", "/", "r", "e", "s", "u", "l", "t", "-", "b", "i", "n">>)
Targets == {TDirenv, TResult, TOut, TEnvrc, TGone}
\* line 111: src, the path of the i-th link of the registry
RegistryLink(i) == [dir |-> GcrootsDir, entry |-> i]
\* the registry, in the order read_dir yields it
Registry == <<TOut, TEnvrc, TGone, TDirenv, TResult>>

\* ------------------------------------------------------------------ regexes
\* mutant: the first pattern without its closing "/"
filename_tests_NoSlash ==
    << <<"/", ".", "d", "i", "r", "e", "n", "v">>,
       <<"r", "e", "s", "u", "l", "t">> >>

\* filename_tests, each as the part between its leading and trailing ".*";
\* in a pattern "." matches any character, every other character itself.
\* Regex::is_match is unanchored, so ".*X.*" matches exactly when X matches
\* somewhere in the text.
filename_tests ==
    << <<"/", ".", "d", "i", "r", "e", "n", "v", "/">>,
       <<"r", "e", "s", "u", "l", "t">> >>

\* the pattern matches the text at offset i
MatchesAt(pat, text, i) ==
    /\ i + Len(pat) <= Len(text)
    /\ \A j \in 1 .. Len(pat) : pat[j] = "." \/ pat[j] = text[i + j]

is_match(pat, text) == \E i \in 0 .. Len(text) : MatchesAt(pat, text, i)

\* regexes.iter().any(|next| next.is_match(dst))
MatchesAnyRegex(dst) ==
    \E r \in 1 .. Len(filename_tests) : is_match(filename_tests[r], dst.text)

\* generation_regex of cleanable_generations, "^{name}-(\d+)-link", on the
\* file name of a directory entry: the entry's name part must be the profile's
\* name (the names of this model hold no regex metacharacter), a number must
\* follow, and anything may follow "-link" (the pattern has no "$")
generation_regex(name, entry) == entry.name = name

\* ---------------------------------------------------------------- Generation
\* #[derive(PartialOrd, Ord)] on Generation: number, then last_modified, then path
TailRank(t) == IF t = "" THEN 0 ELSE 1

PathLess(a, b) ==
    \/ a.num < b.num
    \/ a.num = b.num /\ TailRank(a.tail) < TailRank(b.tail)

GenLess(a, b) ==
    \/ a.number < b.number
    \/ a.number = b.number /\ a.last_modified < b.last_modified
    \/ a.number = b.number /\ a.last_modified = b.last_modified
         /\ PathLess(a.path, b.path)

\* the last key of a non-empty BTreeMap
LastGen(S) == CHOOSE g \in S : \A h \in S : h = g \/ GenLess(h, g)

\* the keys visited by iter_mut().rev().take(keep)
RECURSIVE RevTake(_, _)
RevTake(S, k) ==
    IF k = 0 \/ S = {} THEN {}
    ELSE LET g == LastGen(S) IN {g} \cup RevTake(S \ {g}, k - 1)

\* mutant: the absolute difference, never Err
duration_since_Abs(now, earlier) ==
    IF earlier <= now THEN [ok |-> TRUE, val |-> now - earlier]
    ELSE [ok |-> TRUE, val |-> earlier - now]

\* SystemTime::duration_since: Err when the earlier time is in fact later
duration_since(now, earlier) ==
    IF earlier <= now THEN [ok |-> TRUE, val |-> now - earlier]
    ELSE [ok |-> FALSE, val |-> earlier - now]

\* cleanable_generations, lines 306-333: one Generation per matching entry of
\* the parent directory; `listing` maps each entry of the directory to its
\* link-level modification time
DiscoverGenerations(name, listing) ==
    { [number |-> e.num, last_modified |-> listing[e], path |-> e] :
        e \in {x \in DOMAIN listing : generation_regex(name, x)} }

\* mutant: `<` for `<=`
AgeRule_Strict(result, now, keep_since) ==
    [g \in DOMAIN result |->
        LET d == duration_since(now, g.last_modified) IN
        IF d.ok /\ d.val < keep_since THEN FALSE ELSE result[g]]

\* mutant: a generation whose age cannot be computed is kept
AgeRule_FutureKept(result, now, keep_since) ==
    [g \in DOMAIN result |->
        LET d == duration_since(now, g.last_modified) IN
        IF ~d.ok \/ d.val <= keep_since THEN FALSE ELSE result[g]]

\* lines 335-346: the age rule
AgeRule(result, now, keep_since) ==
    [g \in DOMAIN result |->
        LET d == duration_since(now, g.last_modified) IN
        IF d.ok /\ d.val <= keep_since THEN FALSE ELSE result[g]]

\* mutant: take(keep) without rev(): the lowest keys
CountRule_NoRev(result, keep) ==
    [g \in DOMAIN result |->
        IF Cardinality({h \in DOMAIN result : GenLess(h, g)}) < keep
        THEN FALSE ELSE result[g]]

\* mutant: the count rule decides alone, a generation outside the last
\* `keep` is flagged remove again
CountRule_Exact(result, keep) ==
    [g \in DOMAIN result |-> g \notin RevTake(DOMAIN result, keep)]

\* mutant: take(keep - 1)
CountRule_OneShort(result, keep) ==
    [g \in DOMAIN result |->
        IF g \in RevTake(DOMAIN result, IF keep = 0 THEN 0 ELSE keep - 1)
        THEN FALSE ELSE result[g]]

\* lines 348-350: the count rule
CountRule(result, keep) ==
    LET taken == RevTake(DOMAIN result, keep) IN
    [g \in DOMAIN result |-> IF g \in taken THEN FALSE ELSE result[g]]

\* cleanable_generations on a readable parent directory
cleanable_generations(name, listing, now, keep, keep_since) ==
    LET gens   == DiscoverGenerations(name, listing)
        result == [g \in gens |-> TRUE]
    IN  CountRule(AgeRule(result, now, keep_since), keep)

\* ------------------------------------------------------------------- state
VARIABLES
    args,             \* CleanArgs (+ the profile of CleanProfileArgs) and the mode
    uid_root,         \* nix::unistd::Uid::effective().is_root()
    clock,            \* SystemTime::now()
    links,            \* the generation links on disk: path -> modification time
    proflinks,        \* the profile links on disk: profile path -> the number of
                      \* the generation the link points to
    targets,          \* the gcroot targets on disk
    disk0,            \* the links and targets on disk when the run started
    activated,        \* the generation links activations created since then
    pc,               \* position of run()
    error,            \* the Err run() returned, "" if none
    profiles,         \* Vec<PathBuf> of run()
    todo,             \* index of the next profile of `for p in profiles`
    profiles_tagged,  \* ProfilesTagged
    gcroots_tagged,   \* HashMap<PathBuf, ToBeRemoved>
    gc_idx,           \* index of the next entry of the gcroot registry
    scanned,          \* directories read_dir was called on
    probed,           \* gcroot targets faccessat was called on: target ->
                      \* the outcome and, if accessible, the modification time read
    report,           \* what was printed: the gcroot section and the profile sections
    prompted,         \* number of confirmation prompts shown
    answer,           \* the user's answer to the prompt, "none" before it
    removed,          \* paths remove_path_nofail was called on, in order
    warned,           \* paths remove_path_nofail warned it failed to remove
    gc_calls          \* invocations of Command::run: the command line, the dry flag
                      \* handed over, the result

vars == << args, uid_root, clock, links, proflinks, targets, disk0, activated,
           pc, error,
           profiles, todo, profiles_tagged, gcroots_tagged, gc_idx, scanned,
           probed, report, prompted, answer, removed, warned, gc_calls >>

envVars  == << args, uid_root, clock, disk0, activated, answer >>
diskVars == << links, proflinks, targets >>

Modes == {"All", "User", "Profile"}

NoProfile == [dir |-> "none", name |-> "none"]

ArgsSet ==
    { [mode |-> m, profile |-> p, keep |-> k, keep_since |-> ks,
       dry |-> d, ask |-> a, nogc |-> g, nogcroots |-> r, optimise |-> o] :
        m \in Modes, p \in AllProfilePaths \cup {NoProfile},
        k \in 0 .. MaxKeep, ks \in 0 .. MaxKeepSince,
        d \in BOOLEAN, a \in BOOLEAN, g \in BOOLEAN, r \in BOOLEAN,
        o \in BOOLEAN }

\* generation k of a profile was created at tick k - 1
RunMtime(k) == k - 1

\* a directory holding generations 1..n of its profile
DirLinks(d, n) == { GenPath(d, ProfileNameOf(d), k, "") : k \in 1 .. n }

\* how many generations each directory holds at the start of a run: any
\* number in the global directory, one in the per-user directory, MaxGen in
\* the user's state directory
InitialCounts ==
    { n \in [Dirs -> 0 .. MaxGen] : n["peruser"] = 1 /\ n["xdg"] = MaxGen }

\* the locals of run() at its start, pc and profiles aside
InitProgram ==
    /\ error = ""
    /\ todo = 1
    /\ profiles_tagged = << >>
    /\ gcroots_tagged = << >>
    /\ gc_idx = 1
    /\ scanned = {}
    /\ probed = << >>
    /\ report = [gcroots |-> {}, profiles |-> {}]
    /\ prompted = 0
    /\ answer = "none"
    /\ disk0 = [links |-> links, targets |-> targets]
    /\ activated = {}
    /\ removed = << >>
    /\ warned = {}
    /\ gc_calls = << >>

Init ==
    /\ args \in { a \in ArgsSet : /\ (a.mode = "Profile") = (a.profile # NoProfile)
                                  /\ a.keep <= MaxKeepRun
                                  /\ ~a.optimise }
    /\ uid_root \in BOOLEAN
    /\ clock = StartTime
    /\ \E n \in InitialCounts :
         LET paths == UNION { DirLinks(d, n[d]) : d \in Dirs } IN
         /\ links = [e \in paths |-> RunMtime(e.num)]
         /\ proflinks = [ p \in { ProfilePath(d) : d \in {x \in Dirs : n[x] > 0} }
                            |-> n[p.dir] ]
    /\ targets = Targets \ {TGone}
    /\ pc = "start"
    /\ profiles = << >>
    /\ InitProgram

\* ------------------------------------------------------------ mode selection
\* profiles_in_dir, lines 252-288: the profile links of a readable directory
\* (symlinks whose target's file name matches "^(.*)-(\d+)-link$"); an
\* unreadable directory yields nothing and no error
profiles_in_dir(dir, readable) ==
    IF readable /\ ProfilePath(dir) \in DOMAIN proflinks THEN << ProfilePath(dir) >>
    ELSE << >>

\* which of the directories D read_dir can read: at most MaxUnreadable fail
Readability(D) ==
    { r \in [D -> BOOLEAN] : Cardinality({d \in D : ~r[d]}) <= MaxUnreadable }

Fail(msg) ==
    /\ pc' = "failed"
    /\ error' = msg

\* util.rs self_elevate() -> !: exec replaces the process image (this run is
\* over, the elevated one is another run), or the call panics
self_elevate ==
    \E exec_ok \in BOOLEAN :
        IF exec_ok THEN pc' = "elevated" /\ UNCHANGED error
        ELSE pc' = "panicked" /\ error' = "self_elevate: exec failed"

\* lines 45-49: Self::Profile
SelectProfile ==
    /\ pc = "start"
    /\ args.mode = "Profile"
    /\ profiles' = << args.profile >>
    /\ pc' = "plan"
    /\ UNCHANGED << error, scanned >>

\* mutant: no elevation, discovery goes on unprivileged
SelectAll_NoElevate ==
    /\ pc = "start"
    /\ args.mode = "All"
    /\ profiles' = profiles_in_dir("global", TRUE)
                     \o profiles_in_dir("peruser", TRUE)
                     \o profiles_in_dir("xdg", TRUE)
    /\ scanned' = scanned \cup {"global", PerUserRoot, "peruser", "xdg"}
    /\ pc' = "plan"
    /\ UNCHANGED error

\* lines 55-56: what reading /nix/var/nix/profiles/per-user comes to: `?` on
\* read_dir, `?` on an entry of it, or every read succeeds
PerUserReads == {"ok", "read_dir per-user", "read_dir per-user entry"}

\* lines 50-74: Self::All
SelectAll ==
    /\ pc = "start"
    /\ args.mode = "All"
    /\ IF ~uid_root
       THEN /\ self_elevate
            /\ UNCHANGED << profiles, scanned >>
       ELSE \E readable \in Readability(Dirs), peruser \in PerUserReads :
            IF peruser # "ok"
            THEN /\ Fail(peruser)
                 /\ scanned' = scanned \cup {"global", PerUserRoot}
                 /\ UNCHANGED profiles
            ELSE /\ profiles' = profiles_in_dir("global", readable["global"])
                                  \o profiles_in_dir("peruser", readable["peruser"])
                                  \o profiles_in_dir("xdg", readable["xdg"])
                 /\ scanned' = scanned \cup {"global", PerUserRoot, "peruser", "xdg"}
                 /\ pc' = "plan"
                 /\ UNCHANGED error

\* mutant: no root check
SelectUser_NoRootCheck ==
    /\ pc = "start"
    /\ args.mode = "User"
    /\ profiles' = profiles_in_dir("xdg", TRUE) \o profiles_in_dir("peruser", TRUE)
    /\ scanned' = scanned \cup {"xdg", "peruser"}
    /\ pc' = "plan"
    /\ UNCHANGED error

\* lines 75-87: Self::User
SelectUser ==
    /\ pc = "start"
    /\ args.mode = "User"
    /\ IF uid_root
       THEN /\ Fail("nh clean user: don't run me as root!")
            /\ UNCHANGED << profiles, scanned >>
       ELSE \E readable \in Readability({"xdg", "peruser"}), lookup_ok \in BOOLEAN :
            IF ~lookup_ok
            THEN /\ Fail("user or HOME lookup")
                 /\ UNCHANGED << profiles, scanned >>
            ELSE /\ profiles' = profiles_in_dir("xdg", readable["xdg"])
                                  \o profiles_in_dir("peruser", readable["peruser"])
                 /\ scanned' = scanned \cup {"xdg", "peruser"}
                 /\ pc' = "plan"
                 /\ UNCHANGED error

SelectMode ==
    /\ (SelectProfile \/ SelectAll \/ SelectUser)
    /\ UNCHANGED << envVars, diskVars, todo, profiles_tagged, gcroots_tagged,
                    gc_idx, probed, report, prompted, removed, warned, gc_calls >>

\* ----------------------------------------------------------------- planning
\* the entries of a directory with their link-level modification times
Listing(dir) == [e \in {x \in DOMAIN links : x.dir = dir} |-> links[e]]

\* what the reads of cleanable_generations come to: the parent directory
\* cannot be read (line 310), an entry of it cannot be read (line 312), the
\* metadata of an entry matching generation_regex cannot be read (lines
\* 317-321), or every read succeeds.  Each failure is returned with `?`.
PlannerReads(p) ==
    {"ok", "Reading profile's generations", "Reading profile's generations entry"}
      \cup (IF DiscoverGenerations(p.name, Listing(p.dir)) # {}
            THEN {"Checking symlink metadata"} ELSE {})

\* mutant: a failed read of the profile's directory leaves the profile
\* unplanned and the loop goes on
PlannerFails_Skip(msg) ==
    /\ error' = msg
    /\ todo' = todo + 1
    /\ UNCHANGED << pc, profiles_tagged >>

\* line 95: `?` on the result of cleanable_generations
PlannerFails(msg) ==
    /\ Fail(msg)
    /\ UNCHANGED << todo, profiles_tagged >>

\* lines 92-97: one iteration of `for p in profiles`, or the end of the loop
PlanProfile ==
    /\ pc = "plan"
    /\ IF todo > Len(profiles)
       THEN /\ pc' = "gcroots"
            /\ UNCHANGED << error, todo, profiles_tagged, scanned >>
       ELSE LET p == profiles[todo] IN
            \E read \in PlannerReads(p) :
            /\ scanned' = scanned \cup {p.dir}
            /\ IF read # "ok"
               THEN PlannerFails(read)
               ELSE /\ profiles_tagged' =
                         (p :> cleanable_generations(p.name, Listing(p.dir), clock,
                                                     args.keep, args.keep_since))
                         @@ profiles_tagged
                    /\ todo' = todo + 1
                    /\ UNCHANGED << pc, error >>
    /\ UNCHANGED << envVars, diskVars, profiles, gcroots_tagged, gc_idx, probed,
                    report, prompted, removed, warned, gc_calls >>

\* ------------------------------------------------------------------ gcroots
\* faccessat(dst, F_OK | W_OK, AT_SYMLINK_NOFOLLOW): the errno, or "ok".
\* A target that is on disk may still be unwritable (EACCES) or fail the
\* check otherwise (EROFS stands for every other errno).
AccessOutcomes(dst) ==
    IF dst \in targets THEN {"ok", "EACCES", "EROFS"} ELSE {"ENOENT"}

\* mutant: the guard forgets is_profile_clean
EnumerateGcroots_IgnoresMode ==
    /\ pc = "gcroots"
    /\ IF args.nogcroots
       THEN /\ pc' = "present"
            /\ UNCHANGED << error, scanned >>
       ELSE /\ scanned' = scanned \cup {GcrootsDir}
            /\ pc' = "scan"
            /\ UNCHANGED error
    /\ UNCHANGED << envVars, diskVars, profiles, todo, profiles_tagged,
                    gcroots_tagged, gc_idx, probed, report, prompted, removed, warned,
                    gc_calls >>

\* line 106: the guard of the gcroot scan, and lines 107-109: read_dir
EnumerateGcroots ==
    /\ pc = "gcroots"
    /\ IF args.mode = "Profile" \/ args.nogcroots
       THEN /\ pc' = "present"
            /\ UNCHANGED << error, scanned >>
       ELSE \E readable \in BOOLEAN :
            /\ scanned' = scanned \cup {GcrootsDir}
            /\ IF readable
               THEN pc' = "scan" /\ UNCHANGED error
               ELSE Fail("Reading auto gcroots dir")
    /\ UNCHANGED << envVars, diskVars, profiles, todo, profiles_tagged,
                    gcroots_tagged, gc_idx, probed, report, prompted, removed, warned,
                    gc_calls >>

\* mutant: a candidate dated in the future is tagged for removal
GcrootTag_FutureRemoved(tagged, dst, now, mtime, keep_since) ==
    LET dur == duration_since(now, mtime) IN
    IF dur.ok /\ dur.val <= keep_since THEN (dst :> FALSE) @@ tagged
    ELSE (dst :> TRUE) @@ tagged

\* mutant: the count rule applied to gcroots, the first `keep` candidates
\* are kept whatever their age
GcrootTag_CountRule(tagged, dst, now, mtime, keep_since) ==
    LET dur == duration_since(now, mtime) IN
    IF ~dur.ok THEN tagged
    ELSE IF dur.val <= keep_since \/ Cardinality(DOMAIN tagged) < args.keep
         THEN (dst :> FALSE) @@ tagged
    ELSE (dst :> TRUE) @@ tagged

\* lines 156-166: the tag of an accessible candidate modified at `mtime`
GcrootTag(tagged, dst, now, mtime, keep_since) ==
    LET dur == duration_since(now, mtime) IN
    IF ~dur.ok THEN tagged
    ELSE IF dur.val <= keep_since THEN (dst :> FALSE) @@ tagged
    ELSE (dst :> TRUE) @@ tagged

\* mutant: only "not found" is skipped
Skippable_OnlyNotFound(errno) == errno = "ENOENT"

\* mutant: every errno is skipped
Skippable_Any(errno) == TRUE

\* line 141: the errnos of faccessat that drop the candidate
Skippable(errno) == errno \in {"EACCES", "ENOENT"}

\* mutant: the read error is logged and the entry skipped
EntryReadFails_Skip(msg) ==
    /\ error' = msg
    /\ gc_idx' = gc_idx + 1
    /\ UNCHANGED << pc, gcroots_tagged, probed >>

\* lines 111-112: `?` on the directory entry and on read_link
EntryReadFails(msg) ==
    /\ Fail(msg)
    /\ UNCHANGED << gcroots_tagged, gc_idx, probed >>

\* what reading one registry entry comes to: the entry itself cannot be read
\* (line 111), its link cannot be resolved (line 112), or both reads succeed
EntryReads == {"ok", "Reading auto gcroots element", "Reading symlink destination"}

\* lines 110-170: one iteration of the loop over the registry, or its end;
\* opening the working directory (lines 126-130) and reading the target's
\* metadata (lines 151-153) fail the run when they fail
ScanGcroot ==
    /\ pc = "scan"
    /\ IF gc_idx > Len(Registry)
       THEN /\ pc' = "present"
            /\ UNCHANGED << error, gcroots_tagged, gc_idx, probed >>
       ELSE LET dst == Registry[gc_idx] IN
            \E entry \in EntryReads :
            IF entry # "ok"
            THEN EntryReadFails(entry)
            ELSE IF ~MatchesAnyRegex(dst)
            THEN /\ gc_idx' = gc_idx + 1
                 /\ UNCHANGED << pc, error, gcroots_tagged, probed >>
            ELSE \E dirfd_ok \in BOOLEAN, access \in AccessOutcomes(dst) :
                 IF ~dirfd_ok
                 THEN /\ Fail("open .")
                      /\ UNCHANGED << gcroots_tagged, gc_idx, probed >>
                 ELSE IF access = "ok"
                 THEN \E mtime \in Times \cup {NoTime} :
                      /\ probed' = (dst :> [access |-> access, mtime |-> mtime])
                                      @@ probed
                      /\ IF mtime = NoTime
                         THEN /\ Fail("Reading gcroot metadata")
                              /\ UNCHANGED << gcroots_tagged, gc_idx >>
                         ELSE /\ gcroots_tagged' =
                                   GcrootTag(gcroots_tagged, dst, clock, mtime,
                                             args.keep_since)
                              /\ gc_idx' = gc_idx + 1
                              /\ UNCHANGED << pc, error >>
                 ELSE /\ probed' = (dst :> [access |-> access, mtime |-> NoTime])
                                      @@ probed
                      /\ IF Skippable(access)
                         THEN /\ gc_idx' = gc_idx + 1
                              /\ UNCHANGED << pc, error, gcroots_tagged >>
                         ELSE /\ Fail("Checking access for gcroot, unknown error")
                              /\ UNCHANGED << gcroots_tagged, gc_idx >>
    /\ UNCHANGED << envVars, diskVars, profiles, todo, profiles_tagged, scanned,
                    report, prompted, removed, warned, gc_calls >>

\* ------------------------------------------------------------- presentation
\* lines 184-202: the gcroot section, printed only if the plan is not empty
GcrootSection ==
    { [path |-> t, tbr |-> gcroots_tagged[t]] : t \in DOMAIN gcroots_tagged }

\* lines 203-213: one section per profile
ProfileSections ==
    UNION { { [profile |-> p, path |-> g.path, tbr |-> profiles_tagged[p][g]] :
                g \in DOMAIN profiles_tagged[p] } :
            p \in DOMAIN profiles_tagged }

\* lines 173-213
Present ==
    /\ pc = "present"
    /\ report' = [gcroots |-> GcrootSection, profiles |-> ProfileSections]
    /\ pc' = "confirm"
    /\ UNCHANGED << envVars, diskVars, error, profiles, todo, profiles_tagged,
                    gcroots_tagged, gc_idx, scanned, probed, prompted, removed, warned,
                    gc_calls >>

\* ------------------------------------------------------------- confirmation
\* mutant: the answer is read and ignored
Confirm_IgnoresAnswer ==
    /\ pc = "confirm"
    /\ IF args.ask
       THEN /\ prompted' = prompted + 1
            /\ \E a \in {"yes", "no"} : answer' = a
       ELSE UNCHANGED << prompted, answer >>
    /\ pc' = "execute"
    /\ UNCHANGED << args, uid_root, clock, disk0, activated, diskVars, error, profiles, todo,
                    profiles_tagged, gcroots_tagged, gc_idx, scanned, probed,
                    report, removed, warned, gc_calls >>

\* lines 216-221: dialoguer::Confirm, default "no"; the user's answer (or the
\* failure to read one) is drawn here
Confirm ==
    /\ pc = "confirm"
    /\ IF args.ask
       THEN /\ prompted' = prompted + 1
            /\ \E a \in {"yes", "no", "io error"} :
               /\ answer' = a
               /\ IF a = "yes" THEN pc' = "execute" /\ UNCHANGED error
                  ELSE IF a = "no" THEN Fail("User rejected the cleanup plan")
                  ELSE Fail("dialoguer")
       ELSE /\ pc' = "execute"
            /\ UNCHANGED << error, prompted, answer >>
    /\ UNCHANGED << args, uid_root, clock, disk0, activated, diskVars, profiles, todo,
                    profiles_tagged, gcroots_tagged, gc_idx, scanned, probed,
                    report, removed, warned, gc_calls >>

\* ---------------------------------------------------------------- execution
\* the sequences that list every element of a finite set exactly once
Orderings(S) ==
    { q \in [1 .. Cardinality(S) -> S] : \A x \in S : \E i \in DOMAIN q : q[i] = x }

\* mutant: the flag is not looked at, every target of the plan is removed
FlaggedGcroots_All == DOMAIN gcroots_tagged

\* lines 224-228: the flagged gcroot targets
FlaggedGcroots == { t \in DOMAIN gcroots_tagged : gcroots_tagged[t] }

\* mutant: iter() without rev(), first key first
RECURSIVE RevFlagged_Forward(_, _)
RevFlagged_Forward(plan, S) ==
    IF S = {} THEN << >>
    ELSE LET g == LastGen(S) IN
         RevFlagged_Forward(plan, S \ {g}) \o (IF plan[g] THEN << g.path >> ELSE << >>)

\* generations_tagged.iter().rev() filtered by the flag (lines 231-235): the
\* paths of the flagged generations of a plan, last key first
RECURSIVE RevFlagged(_, _)
RevFlagged(plan, S) ==
    IF S = {} THEN << >>
    ELSE LET g == LastGen(S) IN
         (IF plan[g] THEN << g.path >> ELSE << >>) \o RevFlagged(plan, S \ {g})

\* lines 230-236 for the profiles visited in the order `order`
RECURSIVE RemovalsOf(_)
RemovalsOf(order) ==
    IF order = << >> THEN << >>
    ELSE LET plan == profiles_tagged[Head(order)] IN
         RevFlagged(plan, DOMAIN plan) \o RemovalsOf(Tail(order))

SeqRange(q) == { q[i] : i \in DOMAIN q }

\* mutant: the first failed removal ends the loop, the paths after it are
\* not attempted
remove_path_failfast(paths, denied) ==
    LET bad  == { i \in DOMAIN paths : paths[i] \in denied }
        cut  == IF bad = {} THEN Len(paths)
                ELSE CHOOSE i \in bad : \A j \in bad : i <= j
        done == SubSeq(paths, 1, cut)
    IN  /\ removed' = removed \o done
        /\ warned' = warned \cup (SeqRange(done) \cap denied)
        /\ links' = [e \in DOMAIN links \ (SeqRange(done) \ denied) |-> links[e]]
        /\ targets' = targets \ (SeqRange(done) \ denied)

\* remove_path_nofail, lines 356-361, on each path of `paths` in turn: the
\* removal of a path in `denied`, or of a path no longer on disk, fails,
\* which is warned about and never stops the run
remove_path_nofail(paths, denied) ==
    /\ removed' = removed \o paths
    /\ warned' = warned \cup denied
                    \cup (SeqRange(paths) \ (DOMAIN links \cup targets))
    /\ links' = [e \in DOMAIN links \ (SeqRange(paths) \ denied) |-> links[e]]
    /\ targets' = targets \ (SeqRange(paths) \ denied)

\* mutant: the removal loop lists the directories again and removes every
\* link of a planned profile that the plan does not flag keep
Execute_Relists ==
    /\ pc = "execute"
    /\ LET unkept == { x \in DOMAIN links :
                         \E p \in DOMAIN profiles_tagged :
                            /\ x.dir = p.dir /\ x.name = p.name
                            /\ ~\E g \in DOMAIN profiles_tagged[p] :
                                   g.path = x /\ ~profiles_tagged[p][g] }
       IN  \E order \in Orderings(unkept) : remove_path_nofail(order, {})
    /\ pc' = "gc"
    /\ UNCHANGED << envVars, proflinks, error, profiles, todo, profiles_tagged,
                    gcroots_tagged, gc_idx, scanned, probed, report, prompted,
                    gc_calls >>

\* mutant: the loop over the generations comes before the loop over the gcroots
Execute_GenerationsFirst ==
    /\ pc = "execute"
    /\ IF args.dry
       THEN UNCHANGED << links, targets, removed, warned >>
       ELSE \E gorder \in Orderings(FlaggedGcroots),
               porder \in Orderings(DOMAIN profiles_tagged) :
            remove_path_nofail(RemovalsOf(porder) \o gorder, {})
    /\ pc' = "gc"
    /\ UNCHANGED << envVars, proflinks, error, profiles, todo, profiles_tagged,
                    gcroots_tagged, gc_idx, scanned, probed, report, prompted,
                    gc_calls >>

\* mutant: the removal loops run in a dry run too
Execute_IgnoresDry ==
    /\ pc = "execute"
    /\ \E gorder \in Orderings(FlaggedGcroots),
          porder \in Orderings(DOMAIN profiles_tagged) :
         remove_path_nofail(gorder \o RemovalsOf(porder), {})
    /\ pc' = "gc"
    /\ UNCHANGED << envVars, proflinks, error, profiles, todo, profiles_tagged,
                    gcroots_tagged, gc_idx, scanned, probed, report, prompted,
                    gc_calls >>

\* lines 223-237: both removal loops; the maps are iterated in an order of
\* the hasher's choosing, and the removals denied by the system are drawn here
Execute ==
    /\ pc = "execute"
    /\ IF args.dry
       THEN UNCHANGED << links, targets, removed, warned >>
       ELSE \E gorder \in Orderings(FlaggedGcroots),
               porder \in Orderings(DOMAIN profiles_tagged) :
            LET paths == gorder \o RemovalsOf(porder) IN
            \E denied \in { D \in SUBSET SeqRange(paths) : Cardinality(D) <= MaxDenied } :
              remove_path_nofail(paths, denied)
    /\ pc' = "gc"
    /\ UNCHANGED << envVars, proflinks, error, profiles, todo, profiles_tagged,
                    gcroots_tagged, gc_idx, scanned, probed, report, prompted,
                    gc_calls >>

\* line 240-241: Command::new("nix").args(["store", "gc"])
NixStoreGc == <<"nix", "store", "gc">>

\* mutant: the result of run() is dropped
CollectGarbage_IgnoresFailure ==
    /\ pc = "gc"
    /\ IF args.nogc
       THEN UNCHANGED gc_calls
       ELSE \E ok \in BOOLEAN :
            gc_calls' = Append(gc_calls, [cmd |-> NixStoreGc, dry |-> args.dry, ok |-> ok])
    /\ pc' = "done"
    /\ UNCHANGED << envVars, diskVars, error, profiles, todo, profiles_tagged,
                    gcroots_tagged, gc_idx, scanned, probed, report, prompted,
                    removed, warned >>

\* mutant: the collector runs whether or not --no-gc was given
CollectGarbage_IgnoresNoGc ==
    /\ pc = "gc"
    /\ \E ok \in BOOLEAN :
         /\ gc_calls' = Append(gc_calls, [cmd |-> NixStoreGc, dry |-> args.dry, ok |-> ok])
         /\ IF ok THEN pc' = "done" /\ UNCHANGED error
            ELSE Fail("nix store gc")
    /\ UNCHANGED << envVars, diskVars, profiles, todo, profiles_tagged,
                    gcroots_tagged, gc_idx, scanned, probed, report, prompted,
                    removed, warned >>

\* lines 239-247: `nix store gc` through Command, which is handed the dry
\* flag; the invocation succeeds or fails, and its result is the run's result
CollectGarbage ==
    /\ pc = "gc"
    /\ IF args.nogc
       THEN /\ pc' = "done"
            /\ UNCHANGED << error, gc_calls >>
       ELSE \E ok \in BOOLEAN :
            /\ gc_calls' = Append(gc_calls, [cmd |-> NixStoreGc, dry |-> args.dry, ok |-> ok])
            /\ IF ok THEN pc' = "done" /\ UNCHANGED error
               ELSE Fail("nix store gc")
    /\ UNCHANGED << envVars, diskVars, profiles, todo, profiles_tagged,
                    gcroots_tagged, gc_idx, scanned, probed, report, prompted,
                    removed, warned >>

Next ==
    \/ SelectMode
    \/ PlanProfile
    \/ EnumerateGcroots
    \/ ScanGcroot
    \/ Present
    \/ Confirm
    \/ Execute
    \/ CollectGarbage

Spec == Init /\ [][Next]_vars

\* ------------------------------------------------- planner specification
\* cleanable_generations on its own: `nh clean profile <dir>/system` right
\* after mode selection, over every directory listing of at most MaxGenPlan
\* numbered links "system-<k>-link" with arbitrary modification times (past,
\* now, future), plus possibly one link "system-<MaxGenPlan>-link~" and one
\* link "default-1-link" of another profile
PlanProfilePath == ProfilePath("global")

PlanEntries ==
    { GenPath("global", "system", k, "") : k \in 1 .. MaxGenPlan }
      \cup { GenPath("global", "system", MaxGenPlan, "~") }

\* an entry of the same directory that belongs to another profile
OtherEntry == GenPath("global", "default", 1, "")

InitPlan ==
    /\ args \in { a \in ArgsSet : /\ a.mode = "Profile"
                                  /\ a.profile = PlanProfilePath
                                  /\ ~a.dry /\ ~a.ask /\ ~a.nogc /\ ~a.nogcroots
                                  /\ ~a.optimise }
    /\ uid_root = FALSE
    /\ clock = StartTime
    /\ \E present \in SUBSET PlanEntries, other \in SUBSET {OtherEntry} :
         \E mtimes \in [present -> Times] :
           links = mtimes @@ [e \in other |-> 0]
    /\ proflinks = [ p \in {PlanProfilePath} |-> MaxGenPlan ]
    /\ targets = Targets \ {TGone}
    /\ pc = "plan"
    /\ profiles = << args.profile >>
    /\ InitProgram

SpecPlan == InitPlan /\ [][PlanProfile]_vars

\* ------------------------------------------------- live-system specification
\* A run on a system that is in use: the user's profile may have been rolled
\* back (its link points to a generation that is not the newest), and between
\* the planning pass and the removal loops other processes change the
\* filesystem: an activation creates a generation, another process removes a
\* path.  `nh clean user --no-gcroots` as a regular user, with or without
\* --optimise.

\* the number an activation gives a new generation of profile p: one more
\* than the highest number among the profile's links on disk
NextNumber(p) ==
    LET nums == { e.num : e \in { x \in DOMAIN links :
                                     x.dir = p.dir /\ x.name = p.name } }
    IN  IF nums = {} THEN 1
        ELSE (CHOOSE n \in nums : \A m \in nums : m <= n) + 1

\* the paths on disk at the start of the run that another process removed
\* since (a link created anew under the same name does not undo that)
Vanished ==
    { x \in DOMAIN disk0.links : x \notin DOMAIN links \/ x \in activated }
      \cup (disk0.targets \ targets)

\* an activation of profile p while the run is between planning and removal:
\* a new generation link, and the profile link now points to it
Activate ==
    /\ pc = "execute"
    /\ Cardinality(activated) < MaxFaults
    /\ \E p \in DOMAIN proflinks :
         LET new == GenPath(p.dir, p.name, NextNumber(p), "") IN
         /\ links' = (new :> clock) @@ links
         /\ proflinks' = [proflinks EXCEPT ![p] = new.num]
         /\ activated' = activated \cup {new}
    /\ UNCHANGED << args, uid_root, clock, disk0, answer, targets, pc, error,
                    profiles, todo, profiles_tagged, gcroots_tagged, gc_idx,
                    scanned, probed, report, prompted, removed, warned, gc_calls >>

\* another process removes a generation link or a gcroot target while the
\* run is between planning and removal
Vanish ==
    /\ pc = "execute"
    /\ Cardinality(Vanished) < MaxFaults
    /\ \E x \in (DOMAIN links \ activated) \cup targets :
         /\ links' = [e \in DOMAIN links \ {x} |-> links[e]]
         /\ targets' = targets \ {x}
    /\ UNCHANGED << envVars, proflinks, pc, error, profiles, todo,
                    profiles_tagged, gcroots_tagged, gc_idx, scanned, probed,
                    report, prompted, removed, warned, gc_calls >>

InitLive ==
    /\ args \in { a \in ArgsSet : /\ a.mode = "User" /\ a.profile = NoProfile
                                  /\ a.keep <= MaxKeepRun
                                  /\ ~a.dry /\ ~a.ask /\ ~a.nogc /\ a.nogcroots }
    /\ uid_root = FALSE
    /\ clock = StartTime
    /\ LET paths == DirLinks("xdg", MaxGen) \cup DirLinks("peruser", 1) IN
       links = [e \in paths |-> RunMtime(e.num)]
    /\ \E active \in 1 .. MaxGen :
         proflinks = (ProfilePath("xdg") :> active) @@ (ProfilePath("peruser") :> 1)
    /\ targets = Targets \ {TGone}
    /\ pc = "start"
    /\ profiles = << >>
    /\ InitProgram

\* the steps of run() with --no-gcroots (the registry is not scanned), and
\* the steps of the other processes
NextLive ==
    \/ SelectMode
    \/ PlanProfile
    \/ EnumerateGcroots
    \/ Present
    \/ Confirm
    \/ Execute
    \/ CollectGarbage
    \/ Activate
    \/ Vanish

SpecLive == InitLive /\ [][NextLive]_vars

\* ======================================================================
\* Claims
\* ======================================================================
\* the plan of a planned profile, its generations, and how many there are
PlanOf(p) == profiles_tagged[p]
GensOf(p) == DOMAIN profiles_tagged[p]
CountOf(p) == Cardinality(GensOf(p))

\* the discovered generations of p are numbered 1..N, one generation each
Numbered1toN(p) ==
    /\ { g.number : g \in GensOf(p) } = 1 .. CountOf(p)
    /\ \A g, h \in GensOf(p) : g.number = h.number => g = h

\* the premise of the count rule: numbering 1..N, keep <= N, keep_since = 0
CountRulePremise(p) ==
    /\ Numbered1toN(p)
    /\ args.keep <= CountOf(p)
    /\ args.keep_since = 0

\* g is one of the `keep` highest-numbered generations of p
AmongHighestNumbered(p, g) == g.number > CountOf(p) - args.keep

\* C1 as stated: under the premise, whatever the modification times, the
\* generations flagged keep are exactly the `keep` highest-numbered ones and
\* every other generation is flagged remove.
C1_CountRuleAnyMtime ==
    \A p \in DOMAIN profiles_tagged :
        CountRulePremise(p) =>
            \A g \in GensOf(p) : PlanOf(p)[g] = ~AmongHighestNumbered(p, g)

\* C1 amended: under the premise, a generation is flagged keep exactly when it
\* is one of the `keep` highest-numbered ones or its modification time is the
\* very instant of planning (age 0 <= keep_since = 0); generations modified
\* earlier or in the future follow the count rule alone.
C1_CountRule ==
    \A p \in DOMAIN profiles_tagged :
        CountRulePremise(p) =>
            \A g \in GensOf(p) :
                PlanOf(p)[g] = ~(AmongHighestNumbered(p, g) \/ g.last_modified = clock)

\* C1 witness: the defaults keep = 1, keep_since = 0 on a profile with at
\* least two generations 1..N, one of them dated in the future: only the
\* highest-numbered one survives.
C1_Witness ==
    \E p \in DOMAIN profiles_tagged :
        /\ CountRulePremise(p)
        /\ args.keep = 1
        /\ CountOf(p) >= 2
        /\ \E g \in GensOf(p) : g.last_modified > clock
        /\ \A g \in GensOf(p) : PlanOf(p)[g] = (g.number # CountOf(p))

\* the signed age of a generation at planning time
Age(g) == clock - g.last_modified

\* C2 as stated: every generation with now - last_modified <= keep_since is
\* flagged keep, whatever keep is.
C2_AgeRuleSigned ==
    \A p \in DOMAIN profiles_tagged :
        \A g \in GensOf(p) : Age(g) <= args.keep_since => ~PlanOf(p)[g]

\* C2 amended: every generation with 0 <= now - last_modified <= keep_since
\* is flagged keep, whatever keep is (keep = 0 included) and whatever its number.
C2_AgeRule ==
    \A p \in DOMAIN profiles_tagged :
        \A g \in GensOf(p) :
            (0 <= Age(g) /\ Age(g) <= args.keep_since) => ~PlanOf(p)[g]

\* C2 witness: with keep = 0 the lowest-numbered of several generations is
\* kept because its age is within a positive keep_since, while an older one
\* is removed.
C2_Witness ==
    \E p \in DOMAIN profiles_tagged :
        /\ args.keep = 0
        /\ args.keep_since > 0
        /\ \E g, h \in GensOf(p) :
             /\ g.number < h.number
             /\ Age(g) = args.keep_since /\ ~PlanOf(p)[g]
             /\ Age(h) > args.keep_since /\ PlanOf(p)[h]

\* h comes after g in the plan's order: by number, ties by modification
\* time, then by path
Outranks(h, g) ==
    \/ h.number > g.number
    \/ h.number = g.number /\ h.last_modified > g.last_modified
    \/ h.number = g.number /\ h.last_modified = g.last_modified
         /\ h.path.tail # "" /\ g.path.tail = ""

\* the count rule marks g: fewer than `keep` generations come after it
CountKept(p, g) ==
    Cardinality({ h \in GensOf(p) : Outranks(h, g) }) < args.keep

\* the age rule marks g: its age is non-negative and at most keep_since
AgeKept(g) == 0 <= Age(g) /\ Age(g) <= args.keep_since

\* C3: a generation is flagged keep if and only if the count rule or the age
\* rule marks it; one rule suffices and nothing else keeps a generation.
C3_Union ==
    \A p \in DOMAIN profiles_tagged :
        \A g \in GensOf(p) : ~PlanOf(p)[g] <=> (CountKept(p, g) \/ AgeKept(g))

\* C3 witness: the example.  Generations 1, 2, 3, the first two older than
\* keep_since and the third within it, keep = 2: {1: remove, 2: keep, 3: keep},
\* generation 2 kept by the count rule alone.
C3_Witness ==
    \E p \in DOMAIN profiles_tagged :
        /\ args.keep = 2
        /\ { g.number : g \in GensOf(p) } = {1, 2, 3}
        /\ CountOf(p) = 3
        /\ \A g \in GensOf(p) :
             /\ g.number \in {1, 2} => Age(g) > args.keep_since
             /\ g.number = 3 => AgeKept(g)
             /\ PlanOf(p)[g] = (g.number = 1)

\* ---------------------------------------------------------------------
\* the disk is as the run found it
DiskIntact == links = disk0.links /\ targets = disk0.targets

\* the generation links of the directory of profile p that carry its name
OnDisk(p) == { e \in DOMAIN disk0.links : e.dir = p.dir /\ e.name = p.name }

\* every plan computed so far is the one the policy prescribes for the disk:
\* a record for each generation link of the profile, flagged keep exactly
\* when the count rule or the age rule marks it; a gcroot record for each
\* accessible candidate not dated in the future, flagged keep exactly when
\* its age is at most keep_since
PlanFollowsPolicy ==
    /\ \A p \in DOMAIN profiles_tagged :
         /\ { g.path : g \in GensOf(p) } = OnDisk(p)
         /\ \A g \in GensOf(p) :
              /\ g.last_modified = disk0.links[g.path]
              /\ ~PlanOf(p)[g] <=> (CountKept(p, g) \/ AgeKept(g))
    /\ \A t \in DOMAIN gcroots_tagged :
         /\ t \in DOMAIN probed
         /\ probed[t].access = "ok"
         /\ probed[t].mtime <= clock
         /\ gcroots_tagged[t] = (clock - probed[t].mtime > args.keep_since)

\* something is flagged for removal, a gcroot target and a generation
SomethingFlagged ==
    /\ \E t \in DOMAIN gcroots_tagged : gcroots_tagged[t]
    /\ \E p \in DOMAIN profiles_tagged : \E g \in GensOf(p) : PlanOf(p)[g]

\* C4: the plan is the one the policy prescribes whether or not the run is a
\* dry run, and a dry run mutates nothing: it attempts no removal, leaves
\* every generation link and gcroot target on disk, and hands the collector
\* the dry flag whenever it invokes it.
C4_DryRunPurity ==
    /\ PlanFollowsPolicy
    /\ args.dry =>
         /\ removed = << >>
         /\ DiskIntact
         /\ \A i \in DOMAIN gc_calls : gc_calls[i].dry

\* C4 witness: a dry run that ended with a gcroot target and a generation
\* flagged for removal and the collector invoked once.
C4_Witness ==
    /\ args.dry
    /\ pc = "done"
    /\ SomethingFlagged
    /\ Len(gc_calls) = 1

\* C5: once the user has answered no, the run has failed, nothing has been
\* removed and the collector has not been invoked.
C5_ConfirmationVeto ==
    answer = "no" =>
        /\ pc = "failed"
        /\ removed = << >>
        /\ DiskIntact
        /\ gc_calls = << >>

\* C5 witness: a run that was not dry, had something to remove, and was
\* declined.
C5_Witness ==
    /\ answer = "no"
    /\ args.ask /\ ~args.dry /\ ~args.nogc
    /\ SomethingFlagged
    /\ pc = "failed"

\* C6: the prompt is shown exactly when --ask is set and the run is not a dry
\* run: never in a dry run (so a dry run is never declined), never without
\* --ask, and always before execution otherwise.
C6_PromptOnlyWhenNotDry ==
    /\ prompted > 0 => (args.ask /\ ~args.dry)
    /\ args.dry => answer = "none"
    /\ pc \in {"execute", "gc", "done"} => (prompted > 0 <=> (args.ask /\ ~args.dry))

\* the gcroot registry was neither read nor acted on
GcrootsUntouched ==
    /\ GcrootsDir \notin scanned
    /\ probed = << >>
    /\ gcroots_tagged = << >>
    /\ report.gcroots = {}
    /\ targets = disk0.targets
    /\ \A i \in DOMAIN removed : removed[i] \notin Targets

\* C7: in Profile mode, and in any mode with --no-gcroots, the registry is
\* never enumerated, the gcroot plan stays empty, no gcroot section is
\* reported and no gcroot target is removed.
C7_ScopedRun ==
    (args.mode = "Profile" \/ args.nogcroots) => GcrootsUntouched

\* C7 witness: a Profile-mode run without --no-gcroots that removed
\* generations and finished.
C7_Witness ==
    /\ args.mode = "Profile" /\ ~args.nogcroots
    /\ pc = "done"
    /\ removed # << >>

\* nothing was scanned, planned, shown, asked, removed or collected
NothingDone ==
    /\ scanned = {}
    /\ profiles = << >>
    /\ profiles_tagged = << >>
    /\ gcroots_tagged = << >>
    /\ probed = << >>
    /\ report = [gcroots |-> {}, profiles |-> {}]
    /\ prompted = 0
    /\ removed = << >>
    /\ gc_calls = << >>
    /\ DiskIntact

\* C8: User mode as root fails at once: the run is either not yet started or
\* failed, and nothing was scanned, shown, removed or collected.
C8_UserModeAsRoot ==
    (args.mode = "User" /\ uid_root) =>
        /\ pc \in {"start", "failed"}
        /\ pc = "failed" => error = "nh clean user: don't run me as root!"
        /\ NothingDone

\* C8 witness: the failed run.
C8_Witness ==
    /\ args.mode = "User" /\ uid_root
    /\ pc = "failed"

\* C9: All mode without root elevates before any scan: the unprivileged
\* process is either not yet started, replaced, or dead of the panic, and it
\* scanned, planned and removed nothing.
C9_AllModeElevates ==
    (args.mode = "All" /\ ~uid_root) =>
        /\ pc \in {"start", "elevated", "panicked"}
        /\ NothingDone

\* C9 witness: the process was replaced by the elevated one.
C9_Witness ==
    /\ args.mode = "All" /\ ~uid_root
    /\ pc = "elevated"

\* the text holds the piece at offset i
HoldsAt(text, piece, i) ==
    /\ i + Len(piece) <= Len(text)
    /\ SubSeq(text, i + 1, i + Len(piece)) = piece

\* the allow-list, read off the two patterns: the path names "result"
\* somewhere, or has a directory component made of one character followed by
\* "direnv"
AllowListed(t) ==
    \/ \E i \in 0 .. Len(t.text) : HoldsAt(t.text, <<"r", "e", "s", "u", "l", "t">>, i)
    \/ \E i \in 0 .. Len(t.text) :
         /\ HoldsAt(t.text, <<"/">>, i)
         /\ HoldsAt(t.text, <<"d", "i", "r", "e", "n", "v", "/">>, i + 2)

\* the targets of the registry that are not allow-listed
OffTheList == { t \in Targets : ~AllowListed(t) }

\* C10: a registry entry whose target is not allow-listed is never probed,
\* never planned, never shown and never removed.
C10_GcrootAllowList ==
    \A t \in OffTheList :
            /\ t \notin DOMAIN probed
            /\ t \notin DOMAIN gcroots_tagged
            /\ \A r \in report.gcroots : r.path # t
            /\ \A i \in DOMAIN removed : removed[i] # t
            /\ t \in disk0.targets => t \in targets

\* C10 witness: a finished run removed an allow-listed target while both
\* targets off the list were passed over.
C10_Witness ==
    /\ pc = "done"
    /\ \E t \in Targets : AllowListed(t) /\ t \in disk0.targets /\ t \notin targets
    /\ \E t \in Targets : ~AllowListed(t) /\ t \in targets
    /\ Cardinality({ t \in Targets : ~AllowListed(t) }) = 2

\* ---------------------------------------------------------------------
\* the access probe of target t failed with "not found" or "permission denied"
Inaccessible(t) ==
    /\ t \in DOMAIN probed
    /\ probed[t].access \in {"EACCES", "ENOENT"}

\* the position of a target in the registry
IndexOf(t) == CHOOSE i \in DOMAIN Registry : Registry[i] = t

\* target t has no record in the gcroot plan, was not shown, and no removal
\* of it was attempted
Dropped(t) ==
    /\ t \notin DOMAIN gcroots_tagged
    /\ \A r \in report.gcroots : r.path # t
    /\ \A i \in DOMAIN removed : removed[i] # t
    /\ t \in disk0.targets => t \in targets

\* C11: an allow-listed candidate whose access probe fails with "not found"
\* or "permission denied" has no record in the gcroot plan, is not shown and
\* is never removed; the probe does not fail the run, the scan moves on to
\* the next registry entry.
C11_GcrootInaccessible ==
    \A t \in Targets :
        Inaccessible(t) =>
            /\ Dropped(t)
            /\ gc_idx > IndexOf(t)
            /\ pc = "failed" => (gc_idx > Len(Registry) \/ Registry[gc_idx] # t)

\* C11 witness: a finished run in which one candidate was not found, the
\* next was not writable, and the one after them was planned and removed.
C11_Witness ==
    /\ pc = "done"
    /\ Inaccessible(TGone) /\ probed[TGone].access = "ENOENT"
    /\ Inaccessible(TDirenv) /\ probed[TDirenv].access = "EACCES"
    /\ IndexOf(TGone) < IndexOf(TDirenv) /\ IndexOf(TDirenv) < IndexOf(TResult)
    /\ TResult \in DOMAIN gcroots_tagged
    /\ TResult \notin targets

\* the removal loops are behind: the run is at the collector, finished, or
\* failed at the collector
Executed == pc \in {"gc", "done"} \/ (pc = "failed" /\ gc_calls # << >>)

\* every path flagged remove: gcroot targets and generations of every profile
AllFlagged ==
    FlaggedGcroots \cup
    UNION { { g.path : g \in { h \in GensOf(p) : PlanOf(p)[h] } } :
            p \in DOMAIN profiles_tagged }

\* C12: in a run that is not dry and got through execution a removal was
\* attempted exactly once for every flagged gcroot target and every flagged
\* generation of every profile, the failed ones included; every path whose
\* removal did not fail is gone; and the run has not failed unless the
\* collector did.
C12_BestEffortDeletion ==
    (Executed /\ ~args.dry) =>
        /\ SeqRange(removed) = AllFlagged
        /\ Len(removed) = Cardinality(AllFlagged)
        /\ warned \subseteq SeqRange(removed)
        /\ \A x \in SeqRange(removed) \ warned :
             x \notin DOMAIN links /\ x \notin targets
        /\ pc = "failed" => error = "nix store gc"

\* C12 witness: a finished run in which a removal failed and a removal
\* attempted after it succeeded, with flagged generations in two profiles.
C12_Witness ==
    /\ pc = "done" /\ ~args.dry
    /\ \E i, j \in DOMAIN removed :
         /\ i < j
         /\ removed[i] \in warned
         /\ removed[j] \notin warned
         /\ removed[j] \notin DOMAIN links /\ removed[j] \notin targets
    /\ Cardinality({ p \in DOMAIN profiles_tagged :
                       \E g \in GensOf(p) : PlanOf(p)[g] }) >= 2

\* the disk is what the removals that did not fail left of it
DeletionsInPlace ==
    /\ DOMAIN links = DOMAIN disk0.links \ (SeqRange(removed) \ warned)
    /\ targets = disk0.targets \ (SeqRange(removed) \ warned)

\* the collector was invoked and failed
CollectorFailed == \E i \in DOMAIN gc_calls : ~gc_calls[i].ok

\* C13: the run fails whenever the collector invocation fails, and after
\* execution it fails for no other reason: failed removals are warned about
\* only.  Whatever the outcome, the removals performed stay performed.
C13_CollectorFailureIsFatal ==
    /\ CollectorFailed => (pc = "failed" /\ error = "nix store gc")
    /\ (Executed /\ pc = "failed") => CollectorFailed
    /\ (pc = "done" /\ args.nogc) => gc_calls = << >>
    /\ Executed => DeletionsInPlace

\* C13 witness: every removal failed, the collector succeeded, the run ended
\* in success.
C13_Witness ==
    /\ pc = "done" /\ ~args.dry
    /\ removed # << >>
    /\ warned = SeqRange(removed)
    /\ Len(gc_calls) = 1 /\ gc_calls[1].ok

\* the fatal planning errors: unreadable parent directory of a profile,
\* unreadable registry directory, access probe failing otherwise than with
\* "not found" or "permission denied"
PlanningErrors ==
    { "Reading profile's generations", "Reading auto gcroots dir",
      "Checking access for gcroot, unknown error" }

\* no removal was attempted, the disk is as found, the collector was not invoked
NoMutation ==
    /\ removed = << >>
    /\ warned = {}
    /\ DiskIntact
    /\ gc_calls = << >>

\* C14: a fatal planning error is the end of the run and nothing was mutated
\* before it: once the parent directory of a profile or the registry
\* directory could not be read, or an access probe failed with another errno
\* than "not found" and "permission denied", the run has failed, no removal
\* was attempted on any gcroot target or generation (those of the profiles
\* planned before the error included), and the collector was not invoked.
C14_FatalPlanningErrors ==
    /\ error \in PlanningErrors => (pc = "failed" /\ NoMutation)
    /\ \A t \in DOMAIN probed :
         probed[t].access \notin {"ok", "EACCES", "ENOENT"} =>
            /\ pc = "failed"
            /\ error = "Checking access for gcroot, unknown error"
            /\ NoMutation

\* C14 witness: two profiles were planned with generations flagged remove,
\* then a probe failed with another errno; the flagged generations are all
\* on disk.
C14_Witness ==
    /\ pc = "failed"
    /\ error = "Checking access for gcroot, unknown error"
    /\ ~args.dry /\ ~args.ask
    /\ Cardinality({ p \in DOMAIN profiles_tagged :
                       \E g \in GensOf(p) : PlanOf(p)[g] }) >= 2
    /\ \A p \in DOMAIN profiles_tagged :
         \A g \in GensOf(p) : g.path \in DOMAIN links

\* the run has ended past confirmation: in success, or failed at the collector
EndedPastConfirmation ==
    pc = "done" \/ (pc = "failed" /\ error = "nix store gc")

\* C15: with --no-gc the collector is never invoked, and a run that is not
\* dry still attempts the removal of every flagged path; without --no-gc the
\* collector is never invoked twice, a run that ended past confirmation
\* invoked it exactly once, and every invocation was handed the run's dry
\* flag.
C15_CollectorInvocation ==
    /\ args.nogc => gc_calls = << >>
    /\ (args.nogc /\ ~args.dry /\ pc = "done") => SeqRange(removed) = AllFlagged
    /\ Len(gc_calls) <= 1
    /\ \A i \in DOMAIN gc_calls : gc_calls[i].dry = args.dry
    /\ (~args.nogc /\ EndedPastConfirmation) => Len(gc_calls) = 1
    /\ gc_calls # << >> => pc \in {"done", "failed"}

\* C15 witness: a run with --no-gc that removed a flagged generation and a
\* flagged gcroot target and finished without invoking the collector.
C15_Witness ==
    /\ args.nogc /\ ~args.dry
    /\ pc = "done"
    /\ gc_calls = << >>
    /\ \E t \in FlaggedGcroots : t \notin targets
    /\ \E p \in DOMAIN profiles_tagged :
         \E g \in GensOf(p) : PlanOf(p)[g] /\ g.path \notin DOMAIN links

\* ---------------------------------------------------------------------
\* the read errors of /nix/var/nix/profiles/per-user during discovery
DiscoveryReadErrors == { "read_dir per-user", "read_dir per-user entry" }

\* C16: profile discovery never fails the run: no run ends on a directory or
\* an entry that could not be read during discovery, the per-user profiles
\* directory of All mode included.
C16_DiscoveryNeverFails ==
    error \notin DiscoveryReadErrors

\* the read errors that make cleanable_generations return Err
PlannerReadErrors ==
    { "Reading profile's generations", "Reading profile's generations entry",
      "Checking symlink metadata" }

\* the profile the planning loop is at
CurrentProfile == profiles[todo]

EntryReadErrors == { "Reading auto gcroots element", "Reading symlink destination" }

C19_FutureGeneration ==
    /\ \A p \in DOMAIN profiles_tagged :
         /\ \A e \in OnDisk(p) :
              disk0.links[e] > clock =>
                 \E g \in GensOf(p) : g.path = e /\ g.last_modified = disk0.links[e]
         /\ \A g \in GensOf(p) :
              Age(g) < 0 => (PlanOf(p)[g] = ~CountKept(p, g))
    /\ pc = "failed" => error \in PlannerReadErrors

\* C19 witness: keep = 1 and a positive keep_since; two generations dated in
\* the future, the lower-numbered one flagged remove, the highest-numbered
\* one kept by the count rule.
C19_Witness ==
    \E p \in DOMAIN profiles_tagged :
        /\ args.keep = 1 /\ args.keep_since > 0
        /\ \E g, h \in GensOf(p) :
             /\ g.number < h.number
             /\ Age(g) < 0 /\ PlanOf(p)[g]
             /\ Age(h) < 0 /\ ~PlanOf(p)[h]

\* the probe of target t succeeded and its modification time is in the future
FutureDated(t) ==
    /\ t \in DOMAIN probed
    /\ probed[t].access = "ok"
    /\ probed[t].mtime > clock

\* C20: an allow-listed, accessible candidate dated in the future has no
\* record in the gcroot plan, is shown neither as kept nor as removed, is
\* never removed, and does not fail the run: the scan moves past it.
C20_FutureGcroot ==
    \A t \in Targets :
        FutureDated(t) =>
            /\ AllowListed(t)
            /\ Dropped(t)
            /\ gc_idx > IndexOf(t)
            /\ pc = "failed" => (gc_idx > Len(Registry) \/ Registry[gc_idx] # t)

\* C20 witness: a finished run that was not dry passed over a candidate
\* dated in the future and removed the next one.
C20_Witness ==
    /\ pc = "done" /\ ~args.dry
    /\ FutureDated(TDirenv)
    /\ TDirenv \in targets
    /\ TResult \in FlaggedGcroots
    /\ TResult \notin targets

\* ---------------------------------------------------------------------
\* C21: gcroots are judged on age alone: every candidate in the gcroot plan
\* was probed accessible and is flagged keep if and only if now minus the
\* modification time read from its target is at most keep_since; keep plays
\* no part, whatever its value.
C21_GcrootAgeOnly ==
    \A t \in DOMAIN gcroots_tagged :
        /\ t \in DOMAIN probed
        /\ probed[t].access = "ok"
        /\ ~gcroots_tagged[t] <=> (clock - probed[t].mtime <= args.keep_since)

\* C21 witness: keep is at least 1 and every candidate of the plan, two of
\* them, is older than keep_since: all are flagged remove and removed.
C21_Witness ==
    /\ args.keep >= 1
    /\ pc = "done" /\ ~args.dry
    /\ Cardinality(DOMAIN gcroots_tagged) = 2
    /\ \A t \in DOMAIN gcroots_tagged : gcroots_tagged[t] /\ t \notin targets

\* the entries of a directory when the run started
ListingAtStart(dir) ==
    [e \in {x \in DOMAIN disk0.links : x.dir = dir} |-> disk0.links[e]]

\* the plan of profile p as cleanable_generations builds it: after
\* enumeration, after the age rule, after the count rule
Enumerated(p) ==
    [g \in DiscoverGenerations(p.name, ListingAtStart(p.dir)) |-> TRUE]
AfterAgeRule(p) == AgeRule(Enumerated(p), clock, args.keep_since)
AfterCountRule(p) == CountRule(AfterAgeRule(p), args.keep)

\* C22: every discovered generation enters the plan flagged remove; the age
\* rule and then the count rule only change flags from remove to keep and
\* leave the keys alone; and the plan of a profile stays what the count rule
\* left, keys and flags, through presentation, confirmation and execution.
C22_FlagMonotonicity ==
    \A p \in DOMAIN profiles_tagged :
        LET enumerated == Enumerated(p)
            aged       == AgeRule(enumerated, clock, args.keep_since)
            counted    == CountRule(aged, args.keep)
        IN  /\ \A g \in DOMAIN enumerated : enumerated[g]
            /\ DOMAIN aged = DOMAIN enumerated
            /\ DOMAIN counted = DOMAIN enumerated
            /\ \A g \in DOMAIN enumerated :
                 /\ aged[g] => enumerated[g]
                 /\ counted[g] => aged[g]
            /\ PlanOf(p) = counted

\* C22 witness: a finished run; in one plan the count rule cleared a flag the
\* age rule had left, another generation of that plan kept its flag through
\* to execution and was removed.
C22_Witness ==
    /\ pc = "done" /\ ~args.dry
    /\ \E p \in DOMAIN profiles_tagged : \E g, h \in GensOf(p) :
         /\ AfterAgeRule(p)[g] /\ ~PlanOf(p)[g]
         /\ PlanOf(p)[h] /\ h.path \notin DOMAIN links

\* every profile is planned and the gcroot scan is over or was not due
PlansComplete ==
    /\ todo > Len(profiles)
    /\ \A i \in DOMAIN profiles : profiles[i] \in DOMAIN profiles_tagged
    /\ GcrootsDir \in scanned => gc_idx > Len(Registry)
    /\ GcrootsDir \notin scanned => (args.mode = "Profile" \/ args.nogcroots)

\* the plan was shown, and confirmed if confirmation was asked for
ShownAndConfirmed ==
    /\ report = [gcroots |-> GcrootSection, profiles |-> ProfileSections]
    /\ args.ask => (prompted = 1 /\ answer = "yes")

\* C23: a removal is attempted only once every plan is complete, shown and,
\* if asked for, confirmed; in the removal attempts every gcroot target
\* comes before every generation; and the collector is invoked only after
\* all that and, unless the run is dry, after the removal of every flagged
\* path was attempted.
C23_PipelineOrdering ==
    /\ removed # << >> => (PlansComplete /\ ShownAndConfirmed)
    /\ \A i, j \in DOMAIN removed :
         (removed[i] \in Targets /\ removed[j] \notin Targets) => i < j
    /\ gc_calls # << >> =>
         /\ PlansComplete /\ ShownAndConfirmed
         /\ ~args.dry => SeqRange(removed) = AllFlagged

\* C23 witness: a confirmed run that removed a gcroot target and a
\* generation and then invoked the collector.
C23_Witness ==
    /\ pc = "done"
    /\ args.ask /\ answer = "yes"
    /\ \E i, j \in DOMAIN removed : removed[i] \in Targets /\ removed[j] \notin Targets
    /\ Len(gc_calls) = 1

\* the i-th removal attempt is on a generation of the profile of the j-th
SameProfile(i, j) ==
    /\ removed[i] \notin Targets /\ removed[j] \notin Targets
    /\ removed[i].dir = removed[j].dir
    /\ removed[i].name = removed[j].name

\* C24: among the removal attempts, the generations of one profile come in
\* descending order of their number and next to each other: no removal of
\* another profile's generation lies between two of them.
C24_DescendingRemoval ==
    \A i, j \in DOMAIN removed :
        SameProfile(i, j) =>
            /\ removed[i].num > removed[j].num => i < j
            /\ \A k \in DOMAIN removed : (i < k /\ k < j) => SameProfile(i, k)

\* C24 witness: a finished run removed two generations of one profile, the
\* higher-numbered first, and a generation of another profile.
C24_Witness ==
    /\ pc = "done"
    /\ \E i, j, k \in DOMAIN removed :
         /\ SameProfile(i, j) /\ i < j /\ removed[i].num > removed[j].num
         /\ removed[k] \notin Targets /\ ~SameProfile(i, k)

\* ---------------------------------------------------------------------
\* C25 as stated: a generation created after the planning pass is never
\* deleted by the run.
C25_NewGenerationsSurvive ==
    \A e \in activated : e \in DOMAIN links

\* C25 amended: races are not reconciled, the run removes by path what its
\* plan flagged.  Every removal attempt is on a path the plan flags remove,
\* so a generation created after planning is deleted only when it was
\* created under the name of a link that was on disk at planning, was
\* flagged remove and has vanished since; one created under a new name is
\* never deleted.  A removal that fails because its path has vanished is
\* warned about, every other flagged path is still attempted, and the run
\* goes on to invoke the collector, whose result is the run's.
C25_RacesNotReconciled ==
    /\ \A i \in DOMAIN removed : removed[i] \in AllFlagged
    /\ \A e \in activated :
         /\ e \notin DOMAIN links => (e \in DOMAIN disk0.links /\ e \in AllFlagged)
         /\ e \notin DOMAIN disk0.links => e \in DOMAIN links
    /\ Executed =>
         /\ SeqRange(removed) = AllFlagged
         /\ Len(removed) = Cardinality(AllFlagged)
         /\ warned \subseteq SeqRange(removed)
         /\ pc # "gc" => Len(gc_calls) = 1
    /\ (Executed /\ pc = "failed") => CollectorFailed

\* C25 witness: between planning and removal a flagged link vanished and an
\* activation created a generation under a new name; the removal of the
\* vanished path failed, a removal attempted after it succeeded, the new
\* generation is on disk, the collector was invoked and the run succeeded.
C25_Witness ==
    /\ pc = "done"
    /\ \E i, j \in DOMAIN removed :
         /\ i < j
         /\ removed[i] \in warned /\ removed[i] \notin DOMAIN links
         /\ removed[j] \notin warned /\ removed[j] \notin DOMAIN links
    /\ \E e \in activated : e \notin DOMAIN disk0.links /\ e \in DOMAIN links
    /\ Len(gc_calls) = 1 /\ gc_calls[1].ok

\* `nix-store --optimise`, the store-compaction command
NixStoreOptimise == <<"nix-store", "--optimise">>

\* C26: with --optimise a finished run has invoked the compaction command,
\* after the collector invocation and after the removals; without --optimise
\* the compaction command is never invoked.
C26_CompactionAfterCollector ==
    /\ (args.optimise /\ pc = "done") =>
         \E i \in DOMAIN gc_calls :
            /\ gc_calls[i].cmd = NixStoreOptimise
            /\ \E j \in 1 .. i - 1 : gc_calls[j].cmd = NixStoreGc
    /\ ~args.optimise =>
         \A i \in DOMAIN gc_calls : gc_calls[i].cmd # NixStoreOptimise

\* ---------------------------------------------------------------------
\* C27: every path of a plan is an entry of the profile's parent directory
\* named exactly "<profile-name>-<number>-link": nothing follows "-link", and
\* the name is the profile's.
C27_ExactNames ==
    \A p \in DOMAIN profiles_tagged :
        \A g \in GensOf(p) :
            /\ g.path.dir = p.dir
            /\ g.path.name = p.name
            /\ g.path.num = g.number
            /\ g.path.tail = ""

\* the generation link the profile link of p points to
ActiveLink(p) == GenPath(p.dir, p.name, proflinks[p], "")

\* C28: with keep >= 1 the generation a planned profile is activated on is
\* flagged keep in the plan, and no removal of its link is attempted.
C28_ActiveGenerationKept ==
    \A p \in DOMAIN profiles_tagged :
        args.keep >= 1 =>
            /\ \A g \in GensOf(p) : g.path = ActiveLink(p) => ~PlanOf(p)[g]
            /\ \A i \in DOMAIN removed : removed[i] # ActiveLink(p)

\* the number of generations of p flagged keep
KeptCount(p) == Cardinality({ g \in GensOf(p) : ~PlanOf(p)[g] })

\* the smaller of two numbers
Min(a, b) == IF a <= b THEN a ELSE b

\* fewer than `keep` generations of p have a higher number than g
AmongHighest(p, g) ==
    Cardinality({ h \in GensOf(p) : h.number > g.number }) < args.keep

\* C29: whatever keep, keep_since and the modification times, a plan keeps
\* at least min(keep, N) of its N generations, every generation that fewer
\* than `keep` generations outnumber is kept, with keep >= N nothing is
\* flagged remove, and with keep >= 1 no generation of the highest number is
\* flagged remove.
C29_KeepsHighestNumbered ==
    \A p \in DOMAIN profiles_tagged :
        /\ KeptCount(p) >= Min(args.keep, CountOf(p))
        /\ \A g \in GensOf(p) : AmongHighest(p, g) => ~PlanOf(p)[g]
        /\ args.keep >= CountOf(p) => \A g \in GensOf(p) : ~PlanOf(p)[g]

\* the i-th removal attempt is on a path the plan flags remove
FlaggedRemove(x) ==
    \/ x \in DOMAIN gcroots_tagged /\ gcroots_tagged[x]
    \/ \E p \in DOMAIN profiles_tagged :
          \E g \in GensOf(p) : g.path = x /\ PlanOf(p)[g]

\* the links of the registry
RegistryLinks == { RegistryLink(j) : j \in DOMAIN Registry }

\* C30: the run removes nothing but paths its plan flags remove: every
\* removal attempt is on such a path, never on a profile link or a link of
\* the registry; every generation link and gcroot target that was on disk
\* and is not flagged remove (flagged keep, or not in the plan) is still on
\* disk, and so is every profile link.
C30_OnlyFlaggedRemoved ==
    /\ \A i \in DOMAIN removed :
         /\ FlaggedRemove(removed[i])
         /\ removed[i] \notin AllProfilePaths
         /\ removed[i] \notin RegistryLinks
    /\ \A x \in DOMAIN disk0.links \ DOMAIN links : FlaggedRemove(x)
    /\ \A t \in disk0.targets \ targets : FlaggedRemove(t)
    /\ DOMAIN proflinks =
         { ProfilePath(d) : d \in { x \in Dirs : \E e \in DOMAIN disk0.links : e.dir = x } }

\* C30 witness: a finished run whose plan flagged a gcroot target and a
\* generation keep and others remove: the former are on disk, the latter gone.
C30_Witness ==
    /\ pc = "done" /\ ~args.dry
    /\ \E t \in DOMAIN gcroots_tagged : ~gcroots_tagged[t] /\ t \in targets
    /\ \E t \in DOMAIN gcroots_tagged : gcroots_tagged[t] /\ t \notin targets
    /\ \E p \in DOMAIN profiles_tagged : \E g, h \in GensOf(p) :
         /\ ~PlanOf(p)[g] /\ g.path \in DOMAIN links
         /\ PlanOf(p)[h] /\ h.path \notin DOMAIN links

====
